---- MODULE Spec2Model ----
\* The HTTP call layer of the n8n MCP server: one tool call that sends one
\* request through N8nApiClient.request, i.e. the request executor (fetch with a
\* per-attempt abort timer, body decoding), the error classifier
\* (parseHttpError, parseError, formatErrorResponse) and the retry engine
\* (withRetry).
EXTENDS Integers, Sequences, FiniteSets, TLC

VARIABLES
    optMaxRetries,  \* options.maxRetries given to the constructor (None = not supplied)
    maxRetries,     \* this.maxRetries of the client
    pc,             \* position of the call: new, idle, fetch, text, sleep, success, failed, reported
    attempt,        \* withRetry's loop variable
    timerArmed,     \* the attempt's setTimeout(() => controller.abort()) is pending
    status,         \* response.status of the current attempt (0: no response)
    body,           \* text of the response body read by the last attempt (None: not read)
    lastError,      \* withRetry's local lastError
    fnError,        \* what the last invocation of fn threw (None: it returned, or none yet)
    thrown,         \* what withRetry threw (None: nothing)
    result,         \* the value withRetry returned
    trace,          \* per finished attempt, the class of its outcome
    waits,          \* the delays passed to sleep, in order
    response,       \* the structured value the tool handler returned for a failure
    apiUrl,         \* the API URL a client is constructed from (None: undefined)
    apiKey,         \* the API key a client is constructed from (None: undefined)
    via,            \* how the client is made: createN8nApiClient or new N8nApiClient
    client,         \* the constructed client's baseUrl and apiKey (None: no client)
    callerHeaders,  \* options.headers passed to request
    sent,           \* url and headers of the last fetch (None: none yet)
    tool,           \* the tool being served: an API tool or n8n_health_check
    baseDelayMs,    \* baseDelayMs of the policy withRetry runs with
    maxDelayMs,     \* maxDelayMs of the policy withRetry runs with
    method,         \* options.method passed to request
    other,          \* a second call running on the same client at the same time
    calls,          \* tool calls the server has finished serving
    made            \* N8nApiClient instances constructed so far

\* What a call is set up with and never assigns.
inputs == <<optMaxRetries, maxRetries, apiUrl, apiKey, via, callerHeaders, tool,
            baseDelayMs, maxDelayMs, method>>

\* What the call's own steps assign.
own == <<pc, attempt, timerArmed, status, body, lastError, fnError, thrown, result,
         trace, waits, response, sent>>

\* What lies outside the call's own steps: the second call on the client and
\* the server's count of the calls it has served.
outside == <<other, calls>>

vars == <<optMaxRetries, maxRetries, pc, attempt, timerArmed, status, body,
          lastError, fnError, thrown, result, trace, waits, response,
          apiUrl, apiKey, via, client, callerHeaders, sent, tool, baseDelayMs, maxDelayMs,
          method, other, calls, made>>

\* ---------------------------------------------------------------- bounds
\* Largest options.maxRetries a client is constructed with.
MaxRetriesOpt == 3
\* Largest options.maxRetries of a client whose construction and headers vary.
MaxRetriesOptClient == 1
\* Largest maxRetries of a policy passed to withRetry with its own delays.
MaxRetriesPolicy == 2
\* Largest options.maxRetries of a client on which two calls run at once.
MaxRetriesCalls == 1
\* Tool calls a server serves after its first.
MaxCalls == 2

\* ---------------------------------------------------------------- optional values
None == <<>>
Some(v) == <<v>>

\* ---------------------------------------------------------------- program constants
ClientDefaultMaxRetries == 3
DefaultMaxRetries == 3
DefaultBaseDelayMs == 1000
DefaultMaxDelayMs == 10000

DEFAULT_RETRY_CONFIG ==
    [maxRetries |-> DefaultMaxRetries, baseDelayMs |-> DefaultBaseDelayMs,
     maxDelayMs |-> DefaultMaxDelayMs]

ErrorCodes ==
    {"CONNECTION_FAILED", "TIMEOUT", "NETWORK_ERROR", "UNAUTHORIZED", "FORBIDDEN",
     "INVALID_API_KEY", "NOT_FOUND", "WORKFLOW_NOT_FOUND", "EXECUTION_NOT_FOUND",
     "VALIDATION_ERROR", "INVALID_WORKFLOW", "MISSING_REQUIRED_FIELD",
     "ACTIVATION_FAILED", "WEBHOOK_ERROR", "UNKNOWN_ERROR", "API_ERROR"}

\* ---------------------------------------------------------------- inputs
\* Response statuses the server answers with.
Statuses == {200, 400, 401, 403, 404, 422, 429, 500, 502, 503}

\* response.ok
ResponseOk(s) == s >= 200 /\ s <= 299

\* Response body texts.
Bodies ==
    {"", "Bad Gateway", "Gateway timeout", "null", "42", "{}",
     "{\"id\":\"42\"}",
     "{\"message\":\"Workflow not found\"}",
     "{\"hint\":\"Rotate the key\"}",
     "{\"message\":\"Invalid\",\"hint\":\"Fix it\"}",
     "{\"message\":\"\",\"hint\":\"\"}"}

\* The API URL and API key a client is made from: undefined, empty, or set.
ApiUrls == {None, Some(""), Some("https://n8n.example/")}
ApiKeys == {None, Some(""), Some("secret-key")}

\* options.headers of a request: each header supplied by the caller or not.
NoHeaders == [auth |-> None, contentType |-> None]
CallerHeaderSets ==
    {[auth |-> a, contentType |-> c] : a \in {None, Some("other-key")},
                                       c \in {None, Some("text/plain")}}

\* The names a tool call can carry, by the handler table that holds them: a
\* documentation tool, n8n_health_check, a workflow or execution tool, and a
\* name in no table.
Tools == {"doc", "health", "api", "unknown"}

\* options.method of a request.
Methods == {"GET", "POST"}

\* A call that has not begun.
OtherIdle == [pc |-> "idle", attempt |-> 0, timerArmed |-> FALSE, status |-> 0]

\* The endpoint of the call.
Endpoint == "/workflows"

\* The delays of the policies passed to withRetry.
BaseDelays == {DefaultBaseDelayMs, 8000}
MaxDelays == {DefaultMaxDelayMs, 4000}

\* Messages of the TypeError with which fetch rejects when no response arrives.
FetchFaults == {"fetch failed", "connect ECONNREFUSED 127.0.0.1:5678", "socket hang up"}

\* Message of the TypeError with which fetch rejects at once when its url,
\* built on an empty base URL, is no absolute URL.
ParseUrlFault == "Failed to parse URL from /api/v1" \o Endpoint

\* Message of the TypeError with which response.text() rejects when the
\* connection breaks while the body is read.
BodyFault == "terminated"

\* ---------------------------------------------------------------- JSON values
JsonValue(type, message, hint, id) ==
    [type |-> type, message |-> message, hint |-> hint, id |-> id]

JsonUndefined == JsonValue("undefined", None, None, None)
EmptyObject == JsonValue("object", None, None, None)

\* JSON.parse on the body texts: the decoded value, or ok = FALSE for the
\* SyntaxError it throws.
JSONparse(text) ==
    CASE text = "null" -> [ok |-> TRUE, value |-> JsonValue("null", None, None, None)]
      [] text = "42" -> [ok |-> TRUE, value |-> JsonValue("number", None, None, None)]
      [] text = "{}" -> [ok |-> TRUE, value |-> EmptyObject]
      [] text = "{\"id\":\"42\"}" ->
            [ok |-> TRUE, value |-> JsonValue("object", None, None, Some("42"))]
      [] text = "{\"message\":\"Workflow not found\"}" ->
            [ok |-> TRUE, value |-> JsonValue("object", Some("Workflow not found"), None, None)]
      [] text = "{\"hint\":\"Rotate the key\"}" ->
            [ok |-> TRUE, value |-> JsonValue("object", None, Some("Rotate the key"), None)]
      [] text = "{\"message\":\"Invalid\",\"hint\":\"Fix it\"}" ->
            [ok |-> TRUE, value |-> JsonValue("object", Some("Invalid"), Some("Fix it"), None)]
      [] text = "{\"message\":\"\",\"hint\":\"\"}" ->
            [ok |-> TRUE, value |-> JsonValue("object", Some(""), Some(""), None)]
      [] OTHER -> [ok |-> FALSE, value |-> JsonUndefined]

\* The messages of the SyntaxError JSON.parse throws: for the empty text the
\* one message there is, and for a text whose first character starts no JSON
\* value V8's older wording, which names the character and its position, and
\* its newer one, which also quotes the text, whole when it is shorter than 21
\* characters and else its first 10.
SyntaxErrorMessages(text) ==
    IF text = "" THEN {"Unexpected end of JSON input"} ELSE
    {"Unexpected token " \o SubSeq(text, 1, 1) \o " in JSON at position 0",
     IF Len(text) < 21
     THEN "Unexpected token '" \o SubSeq(text, 1, 1) \o "', \"" \o text
              \o "\" is not valid JSON"
     ELSE "Unexpected token '" \o SubSeq(text, 1, 1) \o "', \"" \o SubSeq(text, 1, 10)
              \o "\"... is not valid JSON"}

\* A property read v.p throws a TypeError exactly when v is null.
CanReadProperty(v) == v.type # "null"

\* x || d on an optional string: d when x is undefined or the empty string.
OrElse(x, d) == IF x = None \/ x = Some("") THEN d ELSE x[1]

\* ---------------------------------------------------------------- error values
ErrorValue(name, code, message, statusCode, hint, details) ==
    [name |-> name, code |-> code, message |-> message, statusCode |-> statusCode,
     hint |-> hint, details |-> details]

\* new Error(message), new TypeError(message), ...
PlainError(name, message) == ErrorValue(name, None, message, None, None, None)

\* new N8nError({code, message, statusCode, hint, details})
N8nError(code, message, statusCode, hint, details) ==
    ErrorValue("N8nError", Some(code), message, statusCode, hint, details)

\* The value undefined, where an error is expected.
Undefined == ErrorValue("undefined", None, "undefined", None, None, None)

\* error instanceof Error
InstanceOfError(e) ==
    e.name \in {"Error", "TypeError", "SyntaxError", "AbortError", "N8nError", "McpError"}

\* error instanceof N8nError
InstanceOfN8nError(e) == e.name = "N8nError"

\* String.prototype.includes
Includes(s, p) ==
    \E i \in 1..(Len(s) - Len(p) + 1) : SubSeq(s, i, i + Len(p) - 1) = p

\* ---------------------------------------------------------------- error classifier
\* parseError without its first check: an N8nError is classified by its
\* message like any other Error.
parseErrorRewrap(error) ==
    IF InstanceOfError(error) THEN
        IF Includes(error.message, "fetch failed") \/ Includes(error.message, "ECONNREFUSED")
        THEN N8nError("CONNECTION_FAILED", "Failed to connect to n8n instance", None,
                      Some("Check that N8N_API_URL is correct and n8n is running"), None)
        ELSE IF Includes(error.message, "timeout") \/ Includes(error.message, "ETIMEDOUT")
        THEN N8nError("TIMEOUT", "Request timed out", None,
                      Some("The n8n server took too long to respond"), None)
        ELSE N8nError("UNKNOWN_ERROR", error.message, None, None, None)
    ELSE N8nError("UNKNOWN_ERROR", error.message, None, None, None)

\* parseError: an N8nError passes through, an Error is classified by its
\* message, anything else becomes UNKNOWN_ERROR with message String(error).
parseError(error) ==
    IF InstanceOfN8nError(error) THEN error
    ELSE IF InstanceOfError(error) THEN
        IF Includes(error.message, "fetch failed") \/ Includes(error.message, "ECONNREFUSED")
        THEN N8nError("CONNECTION_FAILED", "Failed to connect to n8n instance", None,
                      Some("Check that N8N_API_URL is correct and n8n is running"), None)
        ELSE IF Includes(error.message, "timeout") \/ Includes(error.message, "ETIMEDOUT")
        THEN N8nError("TIMEOUT", "Request timed out", None,
                      Some("The n8n server took too long to respond"), None)
        ELSE N8nError("UNKNOWN_ERROR", error.message, None, None, None)
    ELSE N8nError("UNKNOWN_ERROR", error.message, None, None, None)

\* The body as parseHttpError decodes it: {} unless the body is non-empty JSON.
ParsedBody(bodyText) ==
    IF bodyText # "" /\ JSONparse(bodyText).ok THEN JSONparse(bodyText).value
    ELSE EmptyObject

\* const message = parsedBody.message || `HTTP Error ${status}`
BodyMessage(st, parsedBody) == OrElse(parsedBody.message, "HTTP Error " \o ToString(st))

\* HttpErrorCode with the code of case 500/502/503 given a name of its own.
HttpErrorCodeServer(st) ==
    CASE st = 401 -> "UNAUTHORIZED"
      [] st = 403 -> "FORBIDDEN"
      [] st = 404 -> "NOT_FOUND"
      [] st = 422 -> "VALIDATION_ERROR"
      [] st \in {500, 502, 503} -> "NETWORK_ERROR"
      [] OTHER -> "API_ERROR"

\* The code of the N8nError each case of the switch builds.
HttpErrorCode(st) ==
    CASE st = 401 -> "UNAUTHORIZED"
      [] st = 403 -> "FORBIDDEN"
      [] st = 404 -> "NOT_FOUND"
      [] st = 422 -> "VALIDATION_ERROR"
      [] st \in {500, 502, 503} -> "API_ERROR"
      [] OTHER -> "API_ERROR"

\* HttpErrorMessage with a fixed message in case 404.
HttpErrorMessageFixed404(st, parsedBody) ==
    CASE st = 401 -> "Unauthorized - Invalid API key"
      [] st = 403 -> "Forbidden - Access denied"
      [] st = 404 -> "Resource not found"
      [] st = 422 -> BodyMessage(st, parsedBody)
      [] st \in {500, 502, 503} -> "n8n server error"
      [] OTHER -> BodyMessage(st, parsedBody)

\* Its message.
HttpErrorMessage(st, parsedBody) ==
    CASE st = 401 -> "Unauthorized - Invalid API key"
      [] st = 403 -> "Forbidden - Access denied"
      [] st = 404 -> BodyMessage(st, parsedBody)
      [] st = 422 -> BodyMessage(st, parsedBody)
      [] st \in {500, 502, 503} -> "n8n server error"
      [] OTHER -> BodyMessage(st, parsedBody)

\* HttpErrorHint with the body's hint used in case 500/502/503 too.
HttpErrorHintFromBody(st, parsedBody) ==
    CASE st = 401 -> Some(OrElse(parsedBody.hint, "Check that N8N_API_KEY is correct"))
      [] st = 403 ->
            Some(OrElse(parsedBody.hint, "Your API key may not have permission for this operation"))
      [] st = 404 -> Some(OrElse(parsedBody.hint, "The requested resource was not found"))
      [] st = 422 -> Some(OrElse(parsedBody.hint, "The request data is invalid"))
      [] st \in {500, 502, 503} ->
            Some(OrElse(parsedBody.hint, "The n8n server encountered an error"))
      [] OTHER -> parsedBody.hint

\* Its hint.
HttpErrorHint(st, parsedBody) ==
    CASE st = 401 -> Some(OrElse(parsedBody.hint, "Check that N8N_API_KEY is correct"))
      [] st = 403 ->
            Some(OrElse(parsedBody.hint, "Your API key may not have permission for this operation"))
      [] st = 404 -> Some(OrElse(parsedBody.hint, "The requested resource was not found"))
      [] st = 422 -> Some(OrElse(parsedBody.hint, "The request data is invalid"))
      [] st \in {500, 502, 503} -> Some("The n8n server encountered an error")
      [] OTHER -> parsedBody.hint

\* HttpErrorDetails with the decoded body attached in every case.
HttpErrorDetailsAlways(st, parsedBody) == Some(parsedBody)

\* Its details.
HttpErrorDetails(st, parsedBody) == IF st = 422 THEN Some(parsedBody) ELSE None

\* The N8nError parseHttpError builds from the status and the decoded body.
HttpErrorFor(st, parsedBody) ==
    N8nError(HttpErrorCode(st), HttpErrorMessage(st, parsedBody), Some(st),
             HttpErrorHint(st, parsedBody), HttpErrorDetails(st, parsedBody))

\* What `throw parseHttpError(status, body)` throws: the N8nError it returns,
\* or the TypeError that reading parsedBody.message raises when the body
\* decodes to null.
parseHttpError(st, bodyText) ==
    IF CanReadProperty(ParsedBody(bodyText))
    THEN HttpErrorFor(st, ParsedBody(bodyText))
    ELSE PlainError("TypeError", "Cannot read properties of null (reading 'message')")

\* formatErrorResponse: the structured value handed to the tool caller.
formatErrorResponse(error) ==
    [error |-> parseError(error).message, code |-> parseError(error).code,
     hint |-> parseError(error).hint, details |-> parseError(error).details]

\* ---------------------------------------------------------------- client construction
\* !x on an optional string: undefined or empty.
Falsy(x) == x = None \/ x = Some("")

\* url.replace(/\/$/, '')
StripTrailingSlash(u) ==
    IF Len(u) > 0 /\ SubSeq(u, Len(u), Len(u)) = "/" THEN SubSeq(u, 1, Len(u) - 1) ELSE u

\* What new N8nApiClient({apiUrl, apiKey}) throws (None: it constructs):
\* config.apiUrl.replace raises a TypeError when apiUrl is undefined.
ConstructorError(url, key) ==
    IF url = None
    THEN Some(PlainError("TypeError", "Cannot read properties of undefined (reading 'replace')"))
    ELSE None

\* What createN8nApiClient throws (None: it constructs).
FactoryError(url, key) ==
    IF Falsy(url)
    THEN Some(PlainError("Error", "N8N_API_URL environment variable is required"))
    ELSE IF Falsy(key)
    THEN Some(PlainError("Error", "N8N_API_KEY environment variable is required"))
    ELSE ConstructorError(url, key)

\* The fields the constructor sets.
NewClient(url, key) == [baseUrl |-> StripTrailingSlash(url[1]), apiKey |-> key]

\* ---------------------------------------------------------------- request executor
\* The headers of the call: the API key and the JSON content type, then the
\* caller's headers spread over them.
RequestHeaders(key, caller) ==
    [auth |-> IF caller.auth # None THEN caller.auth ELSE key,
     contentType |-> IF caller.contentType # None THEN caller.contentType
                     ELSE Some("application/json")]

\* The fetch of an attempt: its url and headers.
Outbound ==
    [method |-> method,
     url |-> client[1].baseUrl \o "/api/v1" \o Endpoint,
     auth |-> RequestHeaders(client[1].apiKey, callerHeaders).auth,
     contentType |-> RequestHeaders(client[1].apiKey, callerHeaders).contentType]

\* EmptyText if no text counted as empty.
EmptyTextNever(b) == FALSE

\* fetch can parse the url of the attempt.
UrlParses == client[1].baseUrl # ""

\* !text
EmptyText(b) == b = ""

\* clearTimeout if it left the timer as it is.
clearTimeoutSkipped == UNCHANGED timerArmed

\* clearTimeout(timeoutId): the attempt's timer is disarmed.
clearTimeout == timerArmed' = FALSE

\* The rejection of fetch when controller.abort() fires.
AbortError == PlainError("AbortError", "This operation was aborted")

\* requestCatch if it classified whatever it caught before rethrowing it.
requestCatchClassifying(error) == parseError(error)

\* requestCatch if it turned a SyntaxError into an N8nError that is not retried.
requestCatchParseFatal(error) ==
    IF InstanceOfN8nError(error) THEN error
    ELSE IF InstanceOfError(error) THEN
        IF error.name = "AbortError" THEN PlainError("Error", "Request timed out")
        ELSE IF error.name = "SyntaxError"
        THEN N8nError("VALIDATION_ERROR", error.message, None, None, None)
        ELSE error
    ELSE PlainError("Error", "Unknown API error")

\* The catch block of the attempt: what it rethrows for what it caught.
requestCatch(error) ==
    IF InstanceOfN8nError(error) THEN error
    ELSE IF InstanceOfError(error) THEN
        IF error.name = "AbortError" THEN PlainError("Error", "Request timed out")
        ELSE error
    ELSE PlainError("Error", "Unknown API error")

\* ---------------------------------------------------------------- retry engine
\* The policy withRetry runs with: the defaults overridden by its config.
Policy == [maxRetries |-> maxRetries, baseDelayMs |-> baseDelayMs, maxDelayMs |-> maxDelayMs]

\* NonRetryableCodes with API_ERROR added to the list.
NonRetryableCodesWithApiError ==
    {"UNAUTHORIZED", "FORBIDDEN", "NOT_FOUND", "VALIDATION_ERROR", "API_ERROR"}

NonRetryableCodes == {"UNAUTHORIZED", "FORBIDDEN", "NOT_FOUND", "VALIDATION_ERROR"}

Min(a, b) == IF a <= b THEN a ELSE b

\* Delay with the exponent counted from 1 instead of 0.
DelayFromOne(n) == Min(Policy.baseDelayMs * 2^(n + 1), Policy.maxDelayMs)

\* Delay without the cap.
DelayUncapped(n) == Policy.baseDelayMs * 2^n

\* Math.min(baseDelayMs * Math.pow(2, attempt), maxDelayMs)
Delay(n) == Min(Policy.baseDelayMs * 2^n, Policy.maxDelayMs)

\* The loop condition attempt <= maxRetries.
LoopContinues(n) == n <= Policy.maxRetries

\* IsLastAttempt if the check for the last attempt never fired.
IsLastAttemptNever(n) == n > Policy.maxRetries + 1

\* attempt === maxRetries
IsLastAttempt(n) == n = Policy.maxRetries

\* lastError = error instanceof Error ? error : new Error(String(error))
AsError(error) == IF InstanceOfError(error) THEN error ELSE PlainError("Error", error.message)

\* The class of a finished attempt, by its response status or fault.
StatusClass(st) ==
    IF ResponseOk(st) THEN "ok"
    ELSE IF st \in {401, 403, 404, 422} THEN "fast"
    ELSE IF st \in {500, 502, 503} THEN "server"
    ELSE "other"

\* An attempt begins: a fresh controller and timer, then fetch is awaited.
BeginAttempt ==
    /\ sent' = Some(Outbound)
    /\ timerArmed' = TRUE
    /\ status' = 0
    /\ body' = None
    /\ pc' = "fetch"

\* withRetry's loop head for attempt index n: run fn, or fall out of the loop
\* and throw lastError.
LoopHead(n) ==
    /\ attempt' = n
    /\ IF LoopContinues(n)
       THEN /\ BeginAttempt
            /\ UNCHANGED thrown
       ELSE /\ pc' = "failed"
            /\ thrown' = Some(lastError)
            /\ UNCHANGED <<timerArmed, status, body, sent>>

\* withRetryReturn if the value of fn were awaited but not returned: the loop
\* goes on to its next iteration.
withRetryReturnDropped(value) ==
    /\ pc' = "sleep"
    /\ result' = value
    /\ fnError' = None
    /\ UNCHANGED <<attempt, lastError, thrown, waits>>

\* fn resolved: withRetry returns its value.
withRetryReturn(value) ==
    /\ pc' = "success"
    /\ result' = value
    /\ fnError' = None
    /\ UNCHANGED <<attempt, lastError, thrown, waits>>

\* withRetryCatch if the loop went on to its next iteration without the wait.
withRetryCatchNoWait(error) ==
    /\ fnError' = Some(error)
    /\ lastError' = AsError(error)
    /\ IF InstanceOfN8nError(error) /\ error.code[1] \in NonRetryableCodes
       THEN /\ pc' = "failed"
            /\ thrown' = Some(error)
       ELSE IF IsLastAttempt(attempt)
       THEN /\ pc' = "failed"
            /\ thrown' = Some(AsError(error))
       ELSE /\ pc' = "sleep"
            /\ UNCHANGED thrown
    /\ UNCHANGED <<attempt, result, waits>>

\* fn rejected with error: withRetry's catch block.
withRetryCatch(error) ==
    /\ fnError' = Some(error)
    /\ lastError' = AsError(error)
    /\ IF InstanceOfN8nError(error) /\ error.code[1] \in NonRetryableCodes
       THEN /\ pc' = "failed"
            /\ thrown' = Some(error)
            /\ UNCHANGED waits
       ELSE IF IsLastAttempt(attempt)
       THEN /\ pc' = "failed"
            /\ thrown' = Some(AsError(error))
            /\ UNCHANGED waits
       ELSE /\ pc' = "sleep"
            /\ waits' = Append(waits, Delay(attempt))
            /\ UNCHANGED thrown
    /\ UNCHANGED <<attempt, result>>

\* ---------------------------------------------------------------- actions
\* The tool handler calls a client method: request builds the call and enters withRetry.
StartCall ==
    /\ pc = "idle"
    /\ tool \in {"api", "health"}
    /\ LoopHead(0)
    /\ UNCHANGED <<inputs, outside, made, client, lastError, fnError, result, trace, waits, response>>

\* fetch resolves with a response; the timer is cleared and the body is read.
FetchResolves(st) ==
    /\ pc = "fetch"
    /\ UrlParses
    /\ status' = st
    /\ clearTimeout
    /\ pc' = "text"
    /\ UNCHANGED <<inputs, outside, made, client, sent, attempt, body, lastError, fnError, thrown,
                   result, trace, waits, response>>

\* fetch rejects with a transport fault.
FetchRejects(msg) ==
    /\ pc = "fetch"
    /\ msg = ParseUrlFault <=> ~UrlParses
    /\ clearTimeout
    /\ trace' = Append(trace, "conn")
    /\ withRetryCatch(requestCatch(PlainError("TypeError", msg)))
    /\ UNCHANGED <<inputs, outside, made, client, sent, status, body, response>>

\* The attempt's timer fires while fetch is pending: the controller aborts it.
TimerFires ==
    /\ pc = "fetch"
    /\ UrlParses
    /\ timerArmed
    /\ timerArmed' = FALSE
    /\ trace' = Append(trace, "abort")
    /\ withRetryCatch(requestCatch(AbortError))
    /\ UNCHANGED <<inputs, outside, made, client, sent, status, body, response>>

\* response.text() resolves with the body b.
TextResolves(b) ==
    /\ pc = "text"
    /\ body' = Some(b)
    /\ IF ~ResponseOk(status)
       THEN /\ trace' = Append(trace, StatusClass(status))
            /\ withRetryCatch(requestCatch(parseHttpError(status, b)))
       ELSE IF EmptyText(b)
       THEN /\ trace' = Append(trace, "ok")
            /\ withRetryReturn(EmptyObject)
       ELSE IF JSONparse(b).ok
       THEN /\ trace' = Append(trace, "ok")
            /\ withRetryReturn(JSONparse(b).value)
       ELSE /\ trace' = Append(trace, "other")
            /\ \E m \in SyntaxErrorMessages(b) :
                   withRetryCatch(requestCatch(PlainError("SyntaxError", m)))
    /\ UNCHANGED <<inputs, outside, made, client, sent, timerArmed, status, response>>

\* response.text() rejects: the connection broke while the body was read.
TextRejects ==
    /\ pc = "text"
    /\ trace' = Append(trace, "other")
    /\ withRetryCatch(requestCatch(PlainError("TypeError", BodyFault)))
    /\ UNCHANGED <<inputs, outside, made, client, sent, timerArmed, status, body, response>>

\* sleep(delay) resolves: attempt++ and the loop runs again.
SleepDone ==
    /\ pc = "sleep"
    /\ LoopHead(attempt + 1)
    /\ UNCHANGED <<inputs, outside, made, client, lastError, fnError, result, trace, waits, response>>

\* error instanceof Error ? error.message : 'Unknown error'
MessageOf(error) == IF InstanceOfError(error) THEN error.message ELSE "Unknown error"

\* ToolFailureResponse if the health check's failures went through
\* formatErrorResponse like every other tool's.
ToolFailureResponseUniform(t, error, hasClient) ==
    [error |-> formatErrorResponse(error).error, code |-> formatErrorResponse(error).code,
     hint |-> formatErrorResponse(error).hint,
     details |-> formatErrorResponse(error).details, isError |-> TRUE]

\* What the tool caller gets for a failure. An API tool's error reaches the
\* CallTool handler, which returns formatErrorResponse(error) with isError.
\* n8n_health_check never lets it get there: client.healthCheck turns a failed
\* request into { status: 'error', version: message }, which handleHealthCheck
\* reports as a message without isError, and handleHealthCheck's own catch
\* reports a failed client creation as a message with isError.
ToolFailureResponse(t, error, hasClient) ==
    IF t = "health"
    THEN [error |-> IF hasClient THEN "Connection failed: " \o MessageOf(error)
                    ELSE MessageOf(error),
          code |-> None, hint |-> None, details |-> None, isError |-> ~hasClient]
    ELSE [error |-> formatErrorResponse(error).error, code |-> formatErrorResponse(error).code,
          hint |-> formatErrorResponse(error).hint,
          details |-> formatErrorResponse(error).details, isError |-> TRUE]

\* new McpError(ErrorCode.MethodNotFound, `Unknown tool: ${name}`)
McpError ==
    ErrorValue("McpError", Some("MethodNotFound"), "Unknown tool: unknown", None, None, None)

\* What the MCP server answers when the CallTool handler rethrows a McpError:
\* a protocol error with the error's code and message.
ProtocolError(error) ==
    [error |-> error.message, code |-> error.code, hint |-> None, details |-> None,
     isError |-> TRUE]

\* The tool call's failure is turned into the value returned to the tool
\* caller; a McpError is rethrown instead.
Surface ==
    /\ pc = "failed"
    /\ response' = IF thrown[1].name = "McpError" THEN Some(ProtocolError(thrown[1]))
                   ELSE Some(ToolFailureResponse(tool, thrown[1], client # None))
    /\ pc' = "reported"
    /\ UNCHANGED <<inputs, outside, made, client, sent, attempt, timerArmed, status, body, lastError,
                   fnError, thrown, result, trace, waits>>

\* new N8nApiClient(config, options): this.maxRetries = options.maxRetries || 3
ConstructorMaxRetries(opt) ==
    IF opt = None \/ opt[1] = 0 THEN ClientDefaultMaxRetries ELSE opt[1]

\* NeedsCreation if initializeApiClient did not look at the client it holds.
NeedsCreationAlways == TRUE

\* initializeApiClient: !this.apiClient
NeedsCreation == client = None

\* The tool call starts by getting the client: the one the server holds, or a
\* new one from createN8nApiClient or the constructor.
Construct ==
    /\ pc = "new"
    /\ tool # "doc"
    /\ LET err == IF via = "factory" THEN FactoryError(apiUrl, apiKey)
                  ELSE ConstructorError(apiUrl, apiKey)
       IN  IF ~NeedsCreation
           THEN /\ pc' = "idle"
                /\ UNCHANGED <<client, made, thrown>>
           ELSE IF err = None
           THEN /\ client' = Some(NewClient(apiUrl, apiKey))
                /\ made' = made + 1
                /\ pc' = "idle"
                /\ UNCHANGED thrown
           ELSE /\ client' = None
                /\ pc' = "failed"
                /\ thrown' = err
                /\ UNCHANGED made
    /\ UNCHANGED <<inputs, outside, sent, attempt, timerArmed, status, body, lastError, fnError,
                   result, trace, waits, response>>

\* The state of a call before anything has run.
Fresh ==
    /\ attempt = 0
    /\ timerArmed = FALSE
    /\ status = 0
    /\ body = None
    /\ lastError = Undefined
    /\ fnError = None
    /\ thrown = None
    /\ result = JsonUndefined
    /\ trace = <<>>
    /\ waits = <<>>
    /\ response = None
    /\ sent = None

\* A constructed client, about to serve an API tool with the default delays.
Init ==
    /\ optMaxRetries \in {None} \cup {Some(n) : n \in -1..MaxRetriesOpt}
    /\ maxRetries = ConstructorMaxRetries(optMaxRetries)
    /\ apiUrl = Some("https://n8n.example/")
    /\ apiKey = Some("secret-key")
    /\ via = "constructor"
    /\ client = Some(NewClient(apiUrl, apiKey))
    /\ callerHeaders = NoHeaders
    /\ method = "GET"
    /\ other = OtherIdle
    /\ calls = 0
    /\ made = 1
    /\ tool = "api"
    /\ baseDelayMs = DEFAULT_RETRY_CONFIG.baseDelayMs
    /\ maxDelayMs = DEFAULT_RETRY_CONFIG.maxDelayMs
    /\ sent = None
    /\ pc = "idle"
    /\ attempt = 0
    /\ timerArmed = FALSE
    /\ status = 0
    /\ body = None
    /\ lastError = Undefined
    /\ fnError = None
    /\ thrown = None
    /\ result = JsonUndefined
    /\ trace = <<>>
    /\ waits = <<>>
    /\ response = None

Next ==
    \/ StartCall
    \/ \E st \in Statuses : FetchResolves(st)
    \/ \E msg \in FetchFaults \cup {ParseUrlFault} : FetchRejects(msg)
    \/ TimerFires
    \/ \E b \in Bodies : TextResolves(b)
    \/ TextRejects
    \/ SleepDone
    \/ Surface

Spec == Init /\ [][Next]_vars

\* The attempt in flight gets its outcome: fetch settles or is aborted, and
\* the body is read or its reading fails.
AttemptCompletes ==
    \/ \E st \in Statuses : FetchResolves(st)
    \/ \E msg \in FetchFaults \cup {ParseUrlFault} : FetchRejects(msg)
    \/ TimerFires
    \/ \E b \in Bodies : TextResolves(b)
    \/ TextRejects

\* The call is made, every attempt completes and every wait elapses.
SpecLive ==
    Init /\ [][Next]_vars /\ WF_vars(StartCall) /\ WF_vars(AttemptCompletes) /\ WF_vars(SleepDone)

\* ---------------------------------------------------------------- a second call
\* The second call runs the same request and withRetry on the same client,
\* with locals of its own: its position, loop variable, timer and response
\* status.
OtherLoopHead(n) ==
    IF LoopContinues(n)
    THEN [pc |-> "fetch", attempt |-> n, timerArmed |-> TRUE, status |-> 0]
    ELSE [pc |-> "failed", attempt |-> n, timerArmed |-> FALSE, status |-> 0]

\* withRetry's catch block in the second call.
OtherCatch(error) ==
    [other EXCEPT
        !.timerArmed = FALSE,
        !.pc = IF InstanceOfN8nError(error) /\ error.code[1] \in NonRetryableCodes
               THEN "failed"
               ELSE IF IsLastAttempt(other.attempt) THEN "failed" ELSE "sleep"]

OtherStartCall ==
    /\ other.pc = "idle"
    /\ client # None
    /\ other' = OtherLoopHead(0)
    /\ UNCHANGED <<inputs, own, client, calls, made>>

\* OtherFetchResolves if the timer were kept in a field of the client, so that
\* clearing it cleared the timer of whichever call armed it last.
OtherFetchResolvesSharedTimer(st) ==
    /\ other.pc = "fetch"
    /\ other' = [other EXCEPT !.pc = "text", !.status = st, !.timerArmed = FALSE]
    /\ timerArmed' = FALSE
    /\ UNCHANGED <<inputs, pc, attempt, status, body, lastError, fnError, thrown, result,
                   trace, waits, response, sent, client, calls, made>>

OtherFetchResolves(st) ==
    /\ other.pc = "fetch"
    /\ other' = [other EXCEPT !.pc = "text", !.status = st, !.timerArmed = FALSE]
    /\ UNCHANGED <<inputs, own, client, calls, made>>

OtherFetchRejects(msg) ==
    /\ other.pc = "fetch"
    /\ other' = OtherCatch(requestCatch(PlainError("TypeError", msg)))
    /\ UNCHANGED <<inputs, own, client, calls, made>>

OtherTimerFires ==
    /\ other.pc = "fetch"
    /\ other.timerArmed
    /\ other' = OtherCatch(requestCatch(AbortError))
    /\ UNCHANGED <<inputs, own, client, calls, made>>

OtherTextResolves(b) ==
    /\ other.pc = "text"
    /\ IF ~ResponseOk(other.status)
       THEN other' = OtherCatch(requestCatch(parseHttpError(other.status, b)))
       ELSE IF EmptyText(b) \/ JSONparse(b).ok
       THEN other' = [other EXCEPT !.pc = "success"]
       ELSE \E m \in SyntaxErrorMessages(b) :
               other' = OtherCatch(requestCatch(PlainError("SyntaxError", m)))
    /\ UNCHANGED <<inputs, own, client, calls, made>>

OtherTextRejects ==
    /\ other.pc = "text"
    /\ other' = OtherCatch(requestCatch(PlainError("TypeError", BodyFault)))
    /\ UNCHANGED <<inputs, own, client, calls, made>>

OtherSleepDone ==
    /\ other.pc = "sleep"
    /\ other' = OtherLoopHead(other.attempt + 1)
    /\ UNCHANGED <<inputs, own, client, calls, made>>

\* A constructed client on which two calls are about to run.
InitCalls ==
    /\ optMaxRetries \in {Some(n) : n \in 1..MaxRetriesCalls}
    /\ maxRetries = ConstructorMaxRetries(optMaxRetries)
    /\ apiUrl = Some("https://n8n.example/")
    /\ apiKey = Some("secret-key")
    /\ via = "constructor"
    /\ client = Some(NewClient(apiUrl, apiKey))
    /\ callerHeaders = NoHeaders
    /\ method = "GET"
    /\ other = OtherIdle
    /\ calls = 0
    /\ made = 1
    /\ tool = "api"
    /\ baseDelayMs = DEFAULT_RETRY_CONFIG.baseDelayMs
    /\ maxDelayMs = DEFAULT_RETRY_CONFIG.maxDelayMs
    /\ pc = "idle"
    /\ Fresh

NextCalls ==
    \/ Next
    \/ OtherStartCall
    \/ \E st \in Statuses : OtherFetchResolves(st)
    \/ \E msg \in FetchFaults : OtherFetchRejects(msg)
    \/ OtherTimerFires
    \/ \E b \in Bodies : OtherTextResolves(b)
    \/ OtherTextRejects
    \/ OtherSleepDone

SpecCalls == InitCalls /\ [][NextCalls]_vars

\* ---------------------------------------------------------------- the server
\* handleToolCall serves a documentation tool from its handler, with no client.
ServeDocumentation ==
    /\ pc = "new"
    /\ tool = "doc"
    /\ pc' = "served"
    /\ result' = EmptyObject
    /\ UNCHANGED <<inputs, outside, made, client, sent, attempt, timerArmed, status, body,
                   lastError, fnError, thrown, trace, waits, response>>

\* handleToolCall, holding the client, finds the name in no handler table and
\* throws McpError(MethodNotFound).
RejectUnknown ==
    /\ pc = "idle"
    /\ tool = "unknown"
    /\ pc' = "failed"
    /\ thrown' = Some(McpError)
    /\ UNCHANGED <<inputs, outside, made, client, sent, attempt, timerArmed, status, body,
                   lastError, fnError, result, trace, waits, response>>

\* The server has answered a tool call and gets the next one; it keeps the
\* client it holds.
NextCall ==
    /\ pc \in {"success", "served", "reported"}
    /\ calls < MaxCalls
    /\ calls' = calls + 1
    /\ tool' \in Tools
    /\ pc' = "new"
    /\ attempt' = 0
    /\ timerArmed' = FALSE
    /\ status' = 0
    /\ body' = None
    /\ lastError' = Undefined
    /\ fnError' = None
    /\ thrown' = None
    /\ result' = JsonUndefined
    /\ trace' = <<>>
    /\ waits' = <<>>
    /\ response' = None
    /\ sent' = None
    /\ UNCHANGED <<optMaxRetries, maxRetries, apiUrl, apiKey, via, callerHeaders,
                   baseDelayMs, maxDelayMs, method, other, client, made>>

\* A server that holds no client yet gets its first tool call; the API URL
\* and key are what its environment has.
InitServer ==
    /\ pc = "new"
    /\ client = None
    /\ made = 0
    /\ other = OtherIdle
    /\ calls = 0
    /\ Fresh
    /\ via = "factory"
    /\ apiUrl \in ApiUrls
    /\ apiKey \in ApiKeys
    /\ tool \in Tools
    /\ callerHeaders = NoHeaders
    /\ method = "GET"
    /\ optMaxRetries = None
    /\ maxRetries = ConstructorMaxRetries(optMaxRetries)
    /\ baseDelayMs = DEFAULT_RETRY_CONFIG.baseDelayMs
    /\ maxDelayMs = DEFAULT_RETRY_CONFIG.maxDelayMs

NextServer == Construct \/ ServeDocumentation \/ RejectUnknown \/ NextCall \/ Next

SpecServer == InitServer /\ [][NextServer]_vars

\* A call from before the client exists, in one of three settings: the server
\* serving a tool with a client made by createN8nApiClient from the
\* environment; a client made by the constructor, whose request is passed
\* headers; and withRetry given a policy with delays of its own.
InitClient ==
    /\ pc = "new"
    /\ client = None
    /\ made = 0
    /\ other = OtherIdle
    /\ calls = 0
    /\ Fresh
    /\ \/ /\ via = "factory"
          /\ apiUrl \in ApiUrls
          /\ apiKey \in ApiKeys
          /\ tool \in {"api", "health"}
          /\ callerHeaders = NoHeaders
          /\ method = "GET"
          /\ optMaxRetries = None
          /\ maxRetries = ConstructorMaxRetries(optMaxRetries)
          /\ baseDelayMs = DEFAULT_RETRY_CONFIG.baseDelayMs
          /\ maxDelayMs = DEFAULT_RETRY_CONFIG.maxDelayMs
       \/ /\ via = "constructor"
          /\ apiUrl \in ApiUrls
          /\ apiKey \in ApiKeys
          /\ tool = "api"
          /\ callerHeaders \in CallerHeaderSets
          /\ method \in Methods
          /\ optMaxRetries \in {Some(n) : n \in 1..MaxRetriesOptClient}
          /\ maxRetries = ConstructorMaxRetries(optMaxRetries)
          /\ baseDelayMs = DEFAULT_RETRY_CONFIG.baseDelayMs
          /\ maxDelayMs = DEFAULT_RETRY_CONFIG.maxDelayMs
       \/ /\ via = "withRetry"
          /\ apiUrl = Some("https://n8n.example/")
          /\ apiKey = Some("secret-key")
          /\ tool = "api"
          /\ callerHeaders = NoHeaders
          /\ method = "GET"
          /\ optMaxRetries = None
          /\ maxRetries \in 0..MaxRetriesPolicy
          /\ baseDelayMs \in BaseDelays
          /\ maxDelayMs \in MaxDelays

NextClient == Construct \/ Next

SpecClient == InitClient /\ [][NextClient]_vars

\* ================================================================ claims
\* Network attempts issued so far: the finished ones and the one in flight.
Attempts == Len(trace) + (IF pc \in {"fetch", "text"} THEN 1 ELSE 0)

\* The call has ended in a failure.
Failed == pc \in {"failed", "reported"}

\* An attempt has just ended in a failure and nothing has happened since.
AttemptFailed == pc \in {"sleep", "failed", "reported"} /\ fnError # None

\* The last finished attempt got an HTTP error response and read its body.
HttpErrorRead ==
    /\ pc \in {"sleep", "failed", "reported"}
    /\ status # 0
    /\ ~ResponseOk(status)
    /\ body # None

\* C1: when the first response has status 401, 403, 404 or 422 the call makes
\* exactly one network attempt, waits for no backoff and ends failed at once.
C1_FastFailSingleAttempt ==
    (trace # <<>> /\ trace[1] = "fast") =>
        (Attempts = 1 /\ waits = <<>> /\ Failed)

\* C2: under the default policy, while every attempt fails with 500, 502, 503
\* or a connection fault the waits are 1000, 2000, 4000 in that order, and the
\* call ends after exactly 4 attempts.
C2_DefaultPolicyFourAttempts ==
    (maxRetries = 3 /\ \A i \in 1..Len(trace) : trace[i] \in {"server", "conn"}) =>
        /\ Attempts <= 4
        /\ Len(waits) <= 3
        /\ waits = SubSeq(<<1000, 2000, 4000>>, 1, Len(waits))
        /\ Failed => (Len(trace) = 4 /\ waits = <<1000, 2000, 4000>>)

C2_Witness ==
    /\ pc = "failed"
    /\ optMaxRetries = None
    /\ trace = <<"server", "conn", "server", "server">>
    /\ waits = <<1000, 2000, 4000>>

\* C3 as stated, for a call that made at least one attempt: every error an
\* attempt hands to the retry decision, and every error withRetry throws, is
\* an N8nError.
C3_OnlyStructuredErrorsCross ==
    trace # <<>> =>
        /\ fnError # None => InstanceOfN8nError(fnError[1])
        /\ thrown # None => InstanceOfN8nError(thrown[1])

\* C3 amended: a failure crosses the retry engine as an N8nError exactly when
\* the last attempt got an HTTP error response whose body parseHttpError could
\* read; every other failure crosses it as a raw error, and it gets its kind
\* code only when formatErrorResponse classifies it for the tool caller.
C3_StructuredOnlyAtToolBoundary ==
    /\ AttemptFailed =>
          (InstanceOfN8nError(fnError[1]) <=>
              (HttpErrorRead /\ JSONparse(body[1]).value.type # "null"))
    /\ Failed =>
          (InstanceOfN8nError(thrown[1]) <=>
              (HttpErrorRead /\ JSONparse(body[1]).value.type # "null"))
    /\ response # None =>
          /\ response[1].code # None
          /\ response[1].code[1] \in ErrorCodes
          /\ InstanceOfN8nError(thrown[1]) => response[1].code = thrown[1].code

C3_Witness ==
    /\ pc = "reported"
    /\ thrown[1].name = "TypeError"
    /\ thrown[1].code = None
    /\ response[1].code = Some("CONNECTION_FAILED")

\* C4: an attempt aborted by its timer is classified TIMEOUT, and when every
\* attempt of the call was aborted the error surfaced has code TIMEOUT.
C4_TimeoutClassifiedTimeout ==
    /\ (AttemptFailed /\ trace[Len(trace)] = "abort") =>
          parseError(fnError[1]).code = Some("TIMEOUT")
    /\ (pc = "reported" /\ trace # <<>> /\ \A i \in 1..Len(trace) : trace[i] = "abort") =>
          response[1].code = Some("TIMEOUT")

\* C5: a successful attempt ends the call at once with that attempt's value,
\* whatever its index: an attempt that succeeded is the last one, and the call
\* then has made one wait fewer than attempts and holds no armed timer.
C5_SuccessEndsLoop ==
    /\ \A i \in 1..Len(trace) : trace[i] = "ok" => (i = Len(trace) /\ pc = "success")
    /\ pc = "success" =>
          /\ trace # <<>> /\ trace[Len(trace)] = "ok"
          /\ body # None
          /\ result = (IF body[1] = "" THEN EmptyObject ELSE JSONparse(body[1]).value)
          /\ Attempts = Len(trace)
          /\ Len(waits) = Len(trace) - 1
          /\ attempt = Len(trace) - 1
          /\ thrown = None
          /\ ~timerArmed

C5_Witness ==
    /\ pc = "success"
    /\ attempt = maxRetries
    /\ trace = <<"server", "server", "server", "ok">>
    /\ Len(waits) = 3
    /\ result.id = Some("42")

\* C6: with maxRetries >= 0 at most maxRetries + 1 attempts are made; a wait
\* follows only an attempt whose index is below maxRetries, so the attempt with
\* index maxRetries ends the call without one; and the error the call ends
\* with is the error of its last attempt.
C6_AtMostMaxRetriesPlusOne ==
    maxRetries >= 0 =>
        /\ Attempts <= maxRetries + 1
        /\ attempt <= maxRetries
        /\ pc = "sleep" => attempt < maxRetries
        /\ Len(waits) <= maxRetries
        /\ Failed =>
              /\ fnError # None
              /\ thrown = fnError
              /\ Len(waits) = Len(trace) - 1

C6_Witness ==
    /\ pc = "failed"
    /\ maxRetries = 2
    /\ attempt = 2
    /\ Len(trace) = 3
    /\ Len(waits) = 2
    /\ trace[2] = "conn"
    /\ trace[3] = "server"
    /\ thrown[1].statusCode = Some(502)

\* The kind under which a failure is classified.
KindOf(error) == parseError(error).code[1]

\* C7: a failed attempt whose kind is none of UNAUTHORIZED, FORBIDDEN,
\* NOT_FOUND, VALIDATION_ERROR is followed by a backoff wait whenever its index
\* is below maxRetries, and the wait by another attempt; a failed attempt of
\* one of those four kinds ends the call with no wait.
C7_OnlyFourKindsFailFast ==
    /\ [][(trace' # trace /\ fnError' # None) =>
            IF KindOf(fnError'[1]) \in {"UNAUTHORIZED", "FORBIDDEN", "NOT_FOUND", "VALIDATION_ERROR"}
            THEN pc' = "failed" /\ waits' = waits
            ELSE IF attempt < maxRetries
            THEN pc' = "sleep" /\ Len(waits') = Len(waits) + 1
            ELSE pc' = "failed" /\ waits' = waits]_vars
    /\ [][pc = "sleep" => (pc' = "fetch" /\ attempt' = attempt + 1 /\ timerArmed')]_vars

C7_Witness ==
    /\ pc = "fetch"
    /\ attempt = 2
    /\ trace = <<"other", "abort">>
    /\ fnError[1].message = "Request timed out"
    /\ lastError.name = "Error"

\* The kind the status table names for a status; the table names a kind of its
\* own, ServerError, for 500, 502 and 503.
TableKind(st) ==
    CASE st = 401 -> "UNAUTHORIZED"
      [] st = 403 -> "FORBIDDEN"
      [] st = 404 -> "NOT_FOUND"
      [] st = 422 -> "VALIDATION_ERROR"
      [] st \in {500, 502, 503} -> "SERVER_ERROR"
      [] OTHER -> "API_ERROR"

\* parseHttpError returned an N8nError for the last response.
HttpErrorReturned == HttpErrorRead /\ InstanceOfN8nError(fnError[1])

BodyHint == IF JSONparse(body[1]).ok THEN JSONparse(body[1]).value.hint ELSE None
BodyMsg == IF JSONparse(body[1]).ok THEN JSONparse(body[1]).value.message ELSE None

DecodedBody ==
    IF body[1] # "" /\ JSONparse(body[1]).ok THEN JSONparse(body[1]).value ELSE EmptyObject

C12_StatusDerivedWhateverBody ==
    HttpErrorRead =>
        /\ InstanceOfN8nError(fnError[1])
        /\ fnError[1].code = Some(HttpErrorCode(status))
        /\ fnError[1].statusCode = Some(status)
        /\ status \in {401, 403, 404, 422} => pc # "sleep"

C14_EmptyBodyEmptyResult ==
    (ResponseOk(status) /\ body = Some("")) =>
        /\ pc = "success"
        /\ result = EmptyObject
        /\ thrown = None
        /\ trace # <<>> /\ trace[Len(trace)] = "ok"
        /\ Len(waits) = Len(trace) - 1
        /\ Len(trace) = 1 =>
              (Attempts = 1 /\ waits = <<>> /\ fnError = None /\ lastError = Undefined)

C14_Witness ==
    /\ pc = "success"
    /\ status = 200
    /\ body = Some("")
    /\ trace = <<"ok">>
    /\ result = EmptyObject
    /\ ~JSONparse("").ok

\* The last response had a success status and a non-empty body that is no JSON.
BadSuccessBody ==
    /\ ResponseOk(status)
    /\ body # None
    /\ body[1] # ""
    /\ ~JSONparse(body[1]).ok

\* C15: a success response whose non-empty body is no JSON makes the attempt
\* fail, with an error whose kind is API_ERROR or UNKNOWN_ERROR, also when it
\* is handed to the tool caller; the call does not succeed with it.
C15_BadJsonIsApiErrorOrUnknown ==
    BadSuccessBody =>
        /\ AttemptFailed
        /\ result = JsonUndefined
        /\ KindOf(fnError[1]) \in {"API_ERROR", "UNKNOWN_ERROR"}
        /\ pc = "reported" => response[1].code[1] \in {"API_ERROR", "UNKNOWN_ERROR"}

\* parseError leaves x as it is when x is an N8nError, and classifying its
\* result again changes nothing.
PassesThrough(x) ==
    /\ InstanceOfN8nError(x) => parseError(x) = x
    /\ parseError(parseError(x)) = parseError(x)

\* C16: for every fault x of an attempt and every error a call ends with,
\* parseError(x) is x itself when x is an N8nError, with its code, message,
\* status code, hint and details, and parseError(parseError(x)) = parseError(x);
\* the value handed to the tool caller carries an N8nError's fields unchanged.
C16_ParseErrorIdempotent ==
    /\ fnError # None => PassesThrough(fnError[1])
    /\ thrown # None => PassesThrough(thrown[1])
    /\ PassesThrough(lastError)
    /\ (pc = "reported" /\ InstanceOfN8nError(thrown[1])) =>
          /\ response[1].code = thrown[1].code
          /\ response[1].error = thrown[1].message
          /\ response[1].hint = thrown[1].hint
          /\ response[1].details = thrown[1].details

C16_Witness ==
    /\ pc = "reported"
    /\ InstanceOfN8nError(thrown[1])
    /\ thrown[1].code = Some("VALIDATION_ERROR")
    /\ thrown[1].statusCode = Some(422)
    /\ thrown[1].details # None
    /\ response[1].code = Some("VALIDATION_ERROR")
    /\ response[1].details = thrown[1].details

\* C17: an attempt that got no response fails with a fault whose kind goes by
\* its description: TIMEOUT when the attempt's timer aborted it,
\* CONNECTION_FAILED when its message tells of a failed fetch or a refused
\* connection, UNKNOWN_ERROR otherwise.
C17_TransportFaultByDescription ==
    (AttemptFailed /\ status = 0) =>
        KindOf(fnError[1]) =
            (IF trace[Len(trace)] = "abort" THEN "TIMEOUT"
             ELSE IF \/ Includes(fnError[1].message, "fetch failed")
                     \/ Includes(fnError[1].message, "ECONNREFUSED")
             THEN "CONNECTION_FAILED"
             ELSE "UNKNOWN_ERROR")

\* C18: once construction has run, a client exists exactly when the API URL
\* and the API key are both present and non-empty; without one of them the
\* call has failed and no request was sent.
C18_ConstructionRequiresUrlAndKey ==
    pc # "new" =>
        IF Falsy(apiUrl) \/ Falsy(apiKey)
        THEN client = None /\ Failed /\ sent = None /\ trace = <<>>
        ELSE client # None

\* C19 as stated: the failure of every tool call that made a request is handed
\* to the tool caller with the kind, message, hint and details of the
\* classified error.
C19_EveryToolStructured ==
    (pc = "reported" /\ trace # <<>>) =>
        /\ response[1].code = parseError(thrown[1]).code
        /\ response[1].error = parseError(thrown[1]).message
        /\ response[1].hint = parseError(thrown[1]).hint
        /\ response[1].details = parseError(thrown[1]).details

\* C19 amended: the failure of an API tool call is handed to the tool caller
\* with the kind, message, hint and details of the classified error and
\* flagged as an error; the health check hands over a message only, with no
\* kind, hint or details: "Connection failed: " and the error's message, not
\* flagged as an error, when its request failed, and the error's message,
\* flagged, when no client could be made.
C19_ApiToolsStructured ==
    pc = "reported" =>
        IF tool = "health"
        THEN /\ response[1].code = None
             /\ response[1].hint = None
             /\ response[1].details = None
             /\ response[1].error =
                   (IF client # None THEN "Connection failed: " \o thrown[1].message
                    ELSE thrown[1].message)
             /\ response[1].isError = (client = None)
        ELSE /\ response[1].code = parseError(thrown[1]).code
             /\ response[1].code[1] \in ErrorCodes
             /\ response[1].error = parseError(thrown[1]).message
             /\ response[1].hint = parseError(thrown[1]).hint
             /\ response[1].details = parseError(thrown[1]).details
             /\ response[1].isError

C19_Witness ==
    /\ pc = "reported"
    /\ tool = "health"
    /\ client # None
    /\ thrown[1].code = Some("UNAUTHORIZED")
    /\ thrown[1].hint = Some("Check that N8N_API_KEY is correct")
    /\ response[1].code = None
    /\ response[1].hint = None
    /\ response[1].error = "Connection failed: Unauthorized - Invalid API key"
    /\ ~response[1].isError

\* C20: the wait after the failed attempt with index i, counted from 0, is
\* baseDelayMs * 2^i when that is at most maxDelayMs and maxDelayMs otherwise;
\* no wait is above maxDelayMs and no wait is shorter than the one before it.
C20_BackoffIsCappedExponential ==
    \A i \in 1..Len(waits) :
        /\ waits[i] = (IF baseDelayMs * 2^(i - 1) <= maxDelayMs
                       THEN baseDelayMs * 2^(i - 1) ELSE maxDelayMs)
        /\ waits[i] <= maxDelayMs
        /\ i > 1 => waits[i - 1] <= waits[i]

C20_Witness ==
    /\ pc = "failed"
    /\ via = "withRetry"
    /\ baseDelayMs = 8000
    /\ maxDelayMs = 10000
    /\ Len(trace) = 3
    /\ waits = <<8000, 10000>>

\* C21: a timer is armed only while its own attempt is in flight: none is
\* armed before the call, during a backoff wait or after the call has ended;
\* an attempt begins with no timer left over and arms its own; and a timer
\* that fires aborts the attempt in flight only, after which the loop takes
\* its retry decision: a wait when the index is below maxRetries, the end of
\* the call otherwise.
C21_TimerScopedToAttempt ==
    /\ [](pc \notin {"fetch", "text"} => ~timerArmed)
    /\ [][(pc' = "fetch" /\ pc # "fetch") => (~timerArmed /\ timerArmed')]_vars
    /\ [][(Len(trace') > Len(trace) /\ trace'[Len(trace')] = "abort") =>
            /\ pc = "fetch" /\ timerArmed /\ ~timerArmed'
            /\ attempt' = attempt
            /\ Len(trace) = attempt
            /\ pc' = (IF attempt < maxRetries THEN "sleep" ELSE "failed")]_vars

C21_Witness ==
    /\ pc = "fetch"
    /\ attempt = 2
    /\ trace = <<"abort", "abort">>
    /\ timerArmed
    /\ Len(waits) = 2

\* C22: while an attempt is suspended, awaiting the response or reading its
\* body, its timer is armed.
C22_SuspendedOnlyUnderTimer ==
    pc \in {"fetch", "text"} => timerArmed

\* C23: the attempts of a call run one after the other: the attempt in flight
\* is the only one that has not ended, and the attempt with index i + 1 begins
\* only when the attempt with index i has ended in a failure and the wait that
\* followed it has elapsed; the first begins when the call does.
C23_AttemptsSequential ==
    /\ [](pc \in {"fetch", "text"} => (Len(trace) = attempt /\ Attempts = attempt + 1))
    /\ [](Len(trace) <= attempt + 1)
    /\ [][(pc' = "fetch" /\ pc # "fetch") =>
            \/ pc = "idle" /\ attempt' = 0 /\ trace = <<>> /\ waits = <<>>
            \/ /\ pc = "sleep"
               /\ attempt' = attempt + 1
               /\ Len(trace) = attempt + 1
               /\ trace[Len(trace)] # "ok"
               /\ Len(waits) = attempt + 1]_vars

C23_Witness ==
    /\ pc = "text"
    /\ attempt = 3
    /\ Len(trace) = 3
    /\ Len(waits) = 3
    /\ status = 200

\* The state of the retry engine's machine the call is in.
EngineState ==
    CASE pc \in {"new", "idle"} -> "Idle"
      [] pc \in {"fetch", "text"} -> "Attempting"
      [] pc = "sleep" -> "RetryWait"
      [] pc = "success" -> "Success"
      [] pc \in {"failed", "reported"} -> "Failed"

\* C25: the call moves Idle -> Attempting -> Success, RetryWait or Failed, and
\* RetryWait -> Attempting, and in no other way; RetryWait is entered only
\* from an attempt that failed with a retryable kind at an index below
\* maxRetries; after Success or Failed no attempt is made and no wait begun;
\* and when every attempt completes and every wait elapses the call reaches
\* Success or Failed.
C25_EngineStateMachine ==
    /\ [][EngineState' # EngineState =>
            /\ <<EngineState, EngineState'>> \in
                  {<<"Idle", "Attempting">>, <<"Attempting", "Success">>,
                   <<"Attempting", "RetryWait">>, <<"Attempting", "Failed">>,
                   <<"RetryWait", "Attempting">>}
            /\ EngineState' = "RetryWait" =>
                  /\ fnError' # None
                  /\ KindOf(fnError'[1]) \notin NonRetryableCodes
                  /\ attempt < maxRetries]_vars
    /\ [][(EngineState \in {"Success", "Failed"}) =>
            /\ EngineState' = EngineState
            /\ trace' = trace
            /\ waits' = waits
            /\ ~timerArmed'
            /\ attempt' = attempt]_vars
    /\ <>(EngineState \in {"Success", "Failed"})

\* C26: a client constructed with an explicit maxRetries runs every request
\* with that value; with maxRetries = 0 a call makes one attempt and no wait,
\* however the attempt fails; without the option the value is 3.
C26_ExplicitOptionsUsed ==
    /\ optMaxRetries # None => maxRetries = optMaxRetries[1]
    /\ optMaxRetries = None => maxRetries = 3
    /\ optMaxRetries = Some(0) =>
          (Attempts <= 1 /\ waits = <<>> /\ (trace # <<>> => pc # "sleep"))

\* C27: a call that has failed has made at least one attempt, and the error
\* it failed with is the error of an attempt, not undefined.
C27_AtLeastOneAttempt ==
    Failed =>
        /\ trace # <<>>
        /\ fnError # None
        /\ thrown # None
        /\ thrown[1] # Undefined
        /\ thrown[1] = AsError(fnError[1])

\* C28: a success response whose non-empty body is no JSON is retried like a
\* transient failure, whatever the request's method: below maxRetries it is
\* followed by a backoff wait and then by the same request sent again, and
\* the call fails with it only at the attempt with index maxRetries, when
\* maxRetries + 1 attempts have been made.
C28_BadJsonRetried ==
    /\ [](BadSuccessBody =>
            IF attempt < maxRetries
            THEN pc = "sleep" /\ Len(waits) = attempt + 1
            ELSE Failed /\ Len(trace) = maxRetries + 1 /\ Len(waits) = maxRetries)
    /\ [][(BadSuccessBody /\ pc = "sleep") =>
            /\ pc' = "fetch"
            /\ attempt' = attempt + 1
            /\ sent' = sent
            /\ sent'[1].method = method]_vars

C28_Witness ==
    /\ pc = "failed"
    /\ BadSuccessBody
    /\ sent[1].method = "POST"
    /\ maxRetries = 1
    /\ trace = <<"other", "other">>
    /\ waits = <<1000>>
    /\ thrown[1].name = "SyntaxError"

\* C24: while two calls run on one client in any interleaving, the client
\* stays as it was constructed; a step of one call changes nothing of the
\* other; and each call keeps to its own course: its timer is armed only while
\* its own fetch is pending, its attempt index is the number of its own
\* attempts that failed before the one in flight, and stays within maxRetries.
C24_CallsShareOnlyConfig ==
    /\ [](/\ client = Some(NewClient(apiUrl, apiKey))
          /\ maxRetries = ConstructorMaxRetries(optMaxRetries))
    /\ [][client' = client /\ maxRetries' = maxRetries]_vars
    /\ [][other' # other => own' = own]_vars
    /\ [][own' # own => other' = other]_vars
    /\ [](/\ timerArmed => pc = "fetch"
          /\ other.timerArmed => other.pc = "fetch"
          /\ pc \in {"fetch", "text"} => Len(trace) = attempt
          /\ attempt <= maxRetries
          /\ other.attempt <= maxRetries)

C24_Witness ==
    /\ pc = "fetch"
    /\ timerArmed
    /\ attempt = 1
    /\ other.pc = "text"
    /\ ~other.timerArmed
    /\ other.attempt = 0
    /\ other.status = 200

\* C29: a tool call whose name is in no handler table fails with the protocol
\* error MethodNotFound, whatever the environment holds and whether or not the
\* server holds a client, and sends no request; a documentation tool is served
\* without a client being made.
C29_UnknownToolMethodNotFound ==
    /\ tool = "unknown" =>
          /\ pc \in {"new", "idle", "failed", "reported"}
          /\ sent = None
          /\ Failed => thrown = Some(McpError)
          /\ pc = "reported" =>
                (response[1].code = Some("MethodNotFound") /\ response[1].isError)
    /\ (tool = "doc" /\ calls = 0) => (client = None /\ made = 0)

\* C30: the server constructs at most one client and, once it holds it, keeps
\* it: every request is sent with that client; a call that needs the client
\* while the server holds none runs createN8nApiClient, which leaves the server
\* without a client when the URL or the key is missing and with the one client
\* otherwise.
C30_ClientCreatedOnce ==
    /\ [](/\ made <= 1
          /\ client # None <=> made = 1
          /\ client # None => client = Some(NewClient(apiUrl, apiKey))
          /\ sent # None => (client # None /\ sent[1].auth = client[1].apiKey))
    /\ [][client # None => (client' = client /\ made' = made)]_vars
    /\ [][(pc = "new" /\ pc' \notin {"new", "served"} /\ client = None) =>
            IF Falsy(apiUrl) \/ Falsy(apiKey)
            THEN client' = None /\ made' = 0 /\ pc' = "failed" /\ sent' = None
            ELSE client' # None /\ made' = 1 /\ pc' = "idle"]_vars

C30_Witness ==
    /\ calls = 2
    /\ made = 1
    /\ tool = "health"
    /\ pc = "fetch"
    /\ attempt = 1
    /\ sent[1].auth = Some("secret-key")

====
